---- MODULE Spec2Model ----
(***************************************************************************)
(* Model of the SynMem browser extension's NativeHostBridge                *)
(* (src/extension/src/native-host/bridge.ts): the connection state         *)
(* machine, its timers, the outbound message queue and the promises        *)
(* returned by connect().                                                  *)
(*                                                                         *)
(* JavaScript runs every handler to completion, so each public method,     *)
(* timer callback and port callback is one atomic action.  Timers are      *)
(* modelled as sets of armed callbacks; the order in which armed timers    *)
(* may fire follows from their fixed delays (100 ms confirmation, 5000 ms  *)
(* connect-timeout, >= 1000 ms reconnect backoff).                         *)
(*                                                                         *)
(* Spec       the bridge: connection, timers, outbound queue, promises     *)
(* SpecInbound  message handlers and inbound messages on a Connected bridge*)
(* SpecBackoff  the reconnect delay computation alone                      *)
(* SpecSync   RealTimeSyncService (src/unnamed/part_002): observation,     *)
(*            pending records and the debounce timer, with a clock in ms   *)
(***************************************************************************)
EXTENDS Integers, Sequences, FiniteSets, TLC

\* ------------------------------------------------------------------ bounds
\* Number of connect() calls (explicit or made by a reconnect timer).
MaxConnects == 2
\* Number of sendMessage calls made by callers and by the heartbeat together.
MaxSends == 1
\* Number of transport writes (port.postMessage) that raise an error.
MaxWriteErrors == 1
\* config.reconnectAttempts given to the constructor (bridge.ts:41-43).
CfgReconnectAttempts == 1
\* Largest attempt number for which the backoff delay is computed.
MaxBackoffN == 8
\* Number of distinct message handler functions.
MaxHandlers == 2
\* Number of 100 ms clock steps of the sync service's run.
MaxTicks == 10
\* Number of MutationObserver callbacks that deliver a significant mutation.
MaxCallbacks == 5
\* Number of mutations in the largest callback.
BulkSize == 60
MaxNodes == 12
MaxTextNodes == 1
MaxQueue == 3

\* ------------------------------------------------------- program constants
\* DEFAULT_CONNECTION_CONFIG.reconnectDelay
DefaultReconnectDelay == 1000
\* DEFAULT_CONNECTION_CONFIG.maxReconnectDelay
DefaultMaxReconnectDelay == 30000

\* DEFAULT_DEBOUNCE_DELAY (ms)
DefaultDebounceDelay == 500
\* handleMutations: the pending list is cut to its last 100 records
MaxPending == 100
MaxPaths == 10

\* The liveness probe { type: 'COMMAND', payload: { action: 'PING' } }.
\* Application messages are numbered 1, 2, ... in sendMessage call order.
PING == 0

CallIds == 1..MaxConnects

VARIABLES
    state,              \* this.state
    port,               \* this.port: 0 = null, c = the handle opened by call c
    reconnectAttempts,  \* this.reconnectAttempts
    reconnectTimeoutId, \* this.reconnectTimeoutId: 0 = null, else a timer id
    pingIntervalId,     \* this.pingIntervalId: TRUE = an interval is armed
    messageQueue,       \* this.messageQueue
    portOpen,           \* handles opened by connectNative and not yet closed
    confirmT,           \* armed 100 ms confirmation timers, by connect call
    timeoutT,           \* armed 5000 ms connect-timeout timers, by connect call
    rTimers,            \* armed reconnect timers: [id, at]
    promise,            \* promise returned by each connect() call
    nCalls,             \* connect() calls made so far
    nSent,              \* application messages passed to sendMessage so far
    nPings,             \* heartbeat firings so far
    writeErrors,        \* transport writes that raised an error so far
    written,            \* messages accepted by port.postMessage, in order
    emitted,            \* errors given to the error handlers by the last handler
    notified,           \* states given to the state-change handlers by the last handler
    lastOp,             \* the handler that ran last
    userClosed,         \* disconnect() was called and no explicit connect() since
    reply,              \* the service worker's reply to the last SEND_TO_NATIVE request
    pingTimers,         \* interval timers armed by setInterval and not cleared
    hdSteps,            \* what handleDisconnect did, in order, when it ran last; else <<>>
    keptAtClose,        \* queue length at the last disconnect() not yet followed by a flush
    bBase, bMax, bN, bDelay,  \* backoff policy: config, attempt number, delay
    messageHandlers,    \* this.messageHandlers, in insertion order
    lastRaw,            \* the raw message given to handleIncomingMessage last
    throwers,           \* the message handlers that throw when given that message
    delivered,          \* message handlers invoked for that message, in call order
    isObserving,        \* RealTimeSyncService.isObserving
    observer,           \* RealTimeSyncService.observer: TRUE = a MutationObserver is attached
    pendingMutations,   \* RealTimeSyncService.pendingMutations (record numbers)
    timeoutId,          \* debounce's timeoutId: 0 = null, else the deadline of the armed timer
    now,                \* current time in ms
    nRecords,           \* records accumulated so far; records are numbered 1, 2, ...
    burstStart,         \* nRecords at the last emission or stop()
    lastEventAt,        \* time of the last handleMutations call that accumulated a record
    nCallbacks,         \* MutationObserver callbacks with a significant mutation so far
    lastBatch,          \* the mutations given to handleMutations by the last step, else <<>>
    emittedIds,         \* numbers of the records sent in DOM_CHANGED messages so far
    started,            \* start() has sent its PAGE_SCRAPED message at least once
    sent,               \* messages given to sendMessage by the last sync-service handler
    attached,           \* MutationObservers observing document.body
    mType,              \* MutationRecord.type of the event being converted
    addedNodes,         \* MutationRecord.addedNodes, in document order
    removedNodes,       \* MutationRecord.removedNodes, in document order
    record,             \* the record convertMutationRecord returned, or NoRecord
    flushPc             \* flushMessageQueue run step by step: "idle", "loop" or "done"

bridgeVars == <<state, port, reconnectAttempts, reconnectTimeoutId, pingIntervalId,
                messageQueue, portOpen, confirmT, timeoutT, rTimers, promise,
                nCalls, nSent, nPings, writeErrors, written, emitted, notified,
                lastOp, userClosed, reply, pingTimers, hdSteps, keptAtClose>>
backoffVars == <<bBase, bMax, bN, bDelay>>
inboundVars == <<messageHandlers, lastRaw, throwers, delivered>>
syncVars == <<isObserving, observer, pendingMutations, timeoutId, now, nRecords,
              burstStart, lastEventAt, nCallbacks, lastBatch, emittedIds, started,
              sent, attached>>
convertVars == <<mType, addedNodes, removedNodes, record>>
flushVars == <<flushPc>>
vars == <<bridgeVars, backoffVars, inboundVars, syncVars, convertVars, flushVars>>

\* ------------------------------------------------------------ pure helpers
Min(a, b) == IF a <= b THEN a ELSE b

RECURSIVE Pow2(_)
\* Math.pow(2, k) for k >= 0
Pow2(k) == IF k <= 0 THEN 1 ELSE 2 * Pow2(k - 1)

ReconnectDelayForDoubled(base, n, max) == Min(base * Pow2(n), max)
\* attemptReconnect: Math.min(reconnectDelay * Math.pow(2, n - 1), maxReconnectDelay),
\* n = this.reconnectAttempts after the increment
ReconnectDelayFor(base, n, max) == Min(base * Pow2(n - 1), max)

NotifyAlways(old, new) == <<new>>
\* setState: handlers are called only when the state changes
Notify(old, new) == IF old # new THEN <<new>> ELSE <<>>

ConnectionFailed(msg) == [code |-> "CONNECTION_FAILED", message |-> msg]

OnSendErrorDrop(q, m) == q
\* sendMessage, catch branch: the message is pushed onto the queue
OnSendError(q, m) == Append(q, m)

\* no SEND_TO_NATIVE request has been answered by the last handler
NoReply == [sent |-> FALSE, queued |-> FALSE]
\* service worker: const sent = bridge.sendMessage(message);
\* sendResponse({ sent, queued: !sent })
ReplyFor(ret) == [sent |-> ret, queued |-> ~ret]

SendMessageTrueOnError(st, p, q, w, m, fail) ==
    IF st # "connected" \/ p = 0
    THEN [queue |-> Append(q, m), written |-> w, ret |-> FALSE, threw |-> FALSE]
    ELSE IF fail
    THEN [queue |-> OnSendError(q, m), written |-> w, ret |-> TRUE, threw |-> TRUE]
    ELSE [queue |-> q, written |-> Append(w, m), ret |-> TRUE, threw |-> FALSE]
\* sendMessage(m) in bridge state st with handle p, queue q and transport log w;
\* fail: port.postMessage raises an error
SendMessage(st, p, q, w, m, fail) ==
    IF st # "connected" \/ p = 0
    THEN [queue |-> Append(q, m), written |-> w, ret |-> FALSE, threw |-> FALSE]
    ELSE IF fail
    THEN [queue |-> OnSendError(q, m), written |-> w, ret |-> FALSE, threw |-> TRUE]
    ELSE [queue |-> q, written |-> Append(w, m), ret |-> TRUE, threw |-> FALSE]

RECURSIVE FlushLoop(_, _, _, _, _, _)
\* flushMessageQueue: while (queue.length > 0 && state === 'connected')
\* { sendMessage(queue.shift()) }.  k numbers the transport writes of this
\* flush; F is the set of writes that raise an error.
FlushLoop(st, p, q, w, k, F) ==
    IF Len(q) > 0 /\ st = "connected"
    THEN LET r == SendMessage(st, p, Tail(q), w, Head(q), k \in F)
         IN  FlushLoop(st, p, r.queue, r.written, k + 1, F)
    ELSE [queue |-> q, written |-> w, writes |-> k - 1]

FlushMessageQueue(st, p, q, w, F) == FlushLoop(st, p, q, w, 1, F)

StopPingIntervalNot(id, n) == [id |-> id, timers |-> n]
\* stopPingInterval: if (this.pingIntervalId) { clearInterval(...); = null }
\* id: this.pingIntervalId, n: the interval timers armed
StopPingInterval(id, n) ==
    IF id THEN [id |-> FALSE, timers |-> n - 1] ELSE [id |-> FALSE, timers |-> n]

\* startPingInterval: this.stopPingInterval(); this.pingIntervalId = setInterval(...)
StartPingInterval(id, n) ==
    [id |-> TRUE, timers |-> StopPingInterval(id, n).timers + 1]

CanConfirmAnyState(p, st) == p # 0
\* confirmation callback: if (this.port && this.state === 'connecting')
CanConfirm(p, st) == p # 0 /\ st = "connecting"

LostWhenAlways(st) == TRUE
\* handleDisconnect: if (this.state === 'connected') { this.emitError(...) }
LostWhen(st) == st = "connected"

\* handleDisconnect and the attemptReconnect it ends with, as the ordered list
\* of what they do in bridge state st; maxed: the attempt limit is reached
HandleDisconnectSteps(st, maxed) ==
    <<"port=null", "stopPingInterval">>
    \o (IF LostWhen(st) THEN <<"emitError lost">> ELSE <<>>)
    \o <<"setState disconnected">>
    \o (IF maxed THEN <<"emitError max">>
        ELSE <<"setState reconnecting", "reconnectAttempts++", "setTimeout">>)

ConnectIsNoopNever(st) == FALSE
\* connect: if (this.state === 'connected') { resolve(); return; }
ConnectIsNoop(st) == st = "connected"

MaxAttemptsReachedLate(n) == n > CfgReconnectAttempts
\* attemptReconnect: if (this.reconnectAttempts >= this.config.reconnectAttempts)
MaxAttemptsReached(n) == n >= CfgReconnectAttempts

\* settling a promise: only a pending promise changes
Settle(pr, c, how) == IF pr[c] = "pending" THEN [pr EXCEPT ![c] = how] ELSE pr

\* ------------------------------------------------------------------- Init
\* no message handler registered, no inbound message received yet
InboundIdle ==
    /\ messageHandlers = <<>>
    /\ lastRaw = "none"
    /\ throwers = {}
    /\ delivered = <<>>

\* a RealTimeSyncService after its constructor, at time 0
SyncIdle ==
    /\ isObserving = FALSE
    /\ observer = FALSE
    /\ pendingMutations = <<>>
    /\ timeoutId = 0
    /\ now = 0
    /\ nRecords = 0
    /\ burstStart = 0
    /\ lastEventAt = 0
    /\ nCallbacks = 0
    /\ lastBatch = <<>>
    /\ emittedIds = {}
    /\ started = FALSE
    /\ sent = <<>>
    /\ attached = 0

\* no mutation record being converted, no flush being run step by step
NoRecord == [type |-> "none"]

ConvertIdle ==
    /\ flushPc = "idle"
    /\ mType = "none"
    /\ addedNodes = <<>>
    /\ removedNodes = <<>>
    /\ record = NoRecord

Init ==
    /\ state = "disconnected"
    /\ port = 0
    /\ reconnectAttempts = 0
    /\ reconnectTimeoutId = 0
    /\ pingIntervalId = FALSE
    /\ messageQueue = <<>>
    /\ portOpen = {}
    /\ confirmT = {}
    /\ timeoutT = {}
    /\ rTimers = {}
    /\ promise = [c \in CallIds |-> "none"]
    /\ nCalls = 0
    /\ nSent = 0
    /\ nPings = 0
    /\ writeErrors = 0
    /\ written = <<>>
    /\ emitted = <<>>
    /\ notified = <<>>
    /\ lastOp = "init"
    /\ userClosed = FALSE
    /\ reply = NoReply
    /\ pingTimers = 0
    /\ hdSteps = <<>>
    /\ keptAtClose = 0
    /\ bBase = DefaultReconnectDelay
    /\ bMax = DefaultMaxReconnectDelay
    /\ bN = 0
    /\ bDelay = 0
    /\ InboundIdle
    /\ SyncIdle
    /\ ConvertIdle

\* ---------------------------------------------------------------- actions
\* The body of connect() for call number c; openThrows: connectNative raises.
DoConnect(c, openThrows) ==
    /\ nCalls' = c
    /\ emitted' = <<>>
    /\ IF ConnectIsNoop(state)
       THEN /\ promise' = [promise EXCEPT ![c] = "resolved"]
            /\ notified' = <<>>
            /\ UNCHANGED <<state, port, portOpen, confirmT, timeoutT, messageQueue>>
       ELSE IF openThrows
       THEN \* catch: setState('disconnected'); reject(error)
            /\ state' = "disconnected"
            /\ notified' = Notify(state, "connecting") \o <<"disconnected">>
            /\ promise' = [promise EXCEPT ![c] = "rejected"]
            /\ UNCHANGED <<port, portOpen, confirmT, timeoutT, messageQueue>>
       ELSE /\ state' = "connecting"
            /\ notified' = Notify(state, "connecting")
            /\ port' = c
            /\ portOpen' = portOpen \cup {c}
            /\ timeoutT' = timeoutT \cup {c}
            /\ confirmT' = confirmT \cup {c}
            \* the probe goes through sendMessage while the state is 'connecting'
            /\ messageQueue' = SendMessage("connecting", c, messageQueue, written,
                                           PING, FALSE).queue
            /\ promise' = [promise EXCEPT ![c] = "pending"]
    /\ UNCHANGED <<reconnectAttempts, reconnectTimeoutId, pingIntervalId,
                   nSent, nPings, writeErrors, written>>

\* connect() called by the service worker or any other caller
Connect ==
    /\ nCalls < MaxConnects
    /\ \E openThrows \in BOOLEAN : DoConnect(nCalls + 1, openThrows)
    /\ rTimers' = rTimers
    /\ lastOp' = "connect"
    /\ hdSteps' = <<>>
    /\ UNCHANGED <<pingTimers, keptAtClose>>
    /\ reply' = NoReply
    /\ userClosed' = FALSE
    /\ UNCHANGED <<backoffVars, inboundVars, syncVars, convertVars, flushVars>>

\* the reconnect timer armed by attemptReconnect fires: this.connect().catch(...)
ReconnectFire ==
    /\ nCalls < MaxConnects
    /\ \E r \in rTimers :
        \* a confirmation timer armed before r (100 ms) fires before r (>= 1000 ms)
        /\ \A c \in confirmT : c > r.at
        /\ rTimers' = rTimers \ {r}
        /\ \E openThrows \in BOOLEAN : DoConnect(nCalls + 1, openThrows)
    /\ lastOp' = "reconnectFire"
    /\ hdSteps' = <<>>
    /\ UNCHANGED <<pingTimers, keptAtClose>>
    /\ reply' = NoReply
    /\ UNCHANGED userClosed
    /\ UNCHANGED <<backoffVars, inboundVars, syncVars, convertVars, flushVars>>

\* the sets of flush writes that may raise an error, within the error budget
FailureSets(q) ==
    { F \in SUBSET (1..(Len(q) + MaxWriteErrors - writeErrors)) :
        Cardinality(F) <= MaxWriteErrors - writeErrors }

ClearConnectTimeoutNot(T, c) == T
\* confirmation callback: clearTimeout(timeout), the connect-timeout of the same call
ClearConnectTimeout(T, c) == T \ {c}

\* the 100 ms confirmation timer of connect call c fires
ConfirmFire ==
    /\ confirmT # {}
    /\ LET c == CHOOSE x \in confirmT : \A y \in confirmT : x <= y
       IN  /\ confirmT' = confirmT \ {c}
           /\ IF CanConfirm(port, state)
              THEN \E F \in FailureSets(messageQueue) :
                     LET r == FlushMessageQueue("connected", port, messageQueue,
                                                written, F)
                     IN  /\ \A k \in F : k <= r.writes
                         /\ timeoutT' = ClearConnectTimeout(timeoutT, c)
                         /\ state' = "connected"
                         /\ notified' = Notify(state, "connected")
                         /\ reconnectAttempts' = 0
                         /\ pingIntervalId' = StartPingInterval(pingIntervalId, pingTimers).id
                         /\ pingTimers' = StartPingInterval(pingIntervalId, pingTimers).timers
                         /\ messageQueue' = r.queue
                         /\ written' = r.written
                         /\ writeErrors' = writeErrors + Cardinality(F)
                         /\ promise' = Settle(promise, c, "resolved")
                         /\ keptAtClose' = 0
              ELSE /\ notified' = <<>>
                   /\ UNCHANGED <<timeoutT, state, reconnectAttempts, pingIntervalId, pingTimers,
                                  keptAtClose,
                                  messageQueue, written, writeErrors, promise>>
    /\ emitted' = <<>>
    /\ lastOp' = "confirm"
    /\ hdSteps' = <<>>
    /\ reply' = NoReply
    /\ UNCHANGED <<port, portOpen, reconnectTimeoutId, rTimers, nCalls, nSent,
                   nPings, userClosed>>
    /\ UNCHANGED <<backoffVars, inboundVars, syncVars, convertVars, flushVars>>

\* the 5000 ms connect-timeout timer of connect call c fires
TimeoutFire ==
    /\ timeoutT # {}
    /\ LET c == CHOOSE x \in timeoutT : \A y \in timeoutT : x <= y
       IN  \* the confirmation timer of the same call (100 ms) has fired before
           /\ c \notin confirmT
           /\ timeoutT' = timeoutT \ {c}
           /\ IF state = "connecting"
              THEN /\ state' = "disconnected"
                   /\ notified' = <<"disconnected">>
                   /\ promise' = Settle(promise, c, "rejected")
              ELSE /\ notified' = <<>>
                   /\ UNCHANGED <<state, promise>>
    /\ emitted' = <<>>
    /\ lastOp' = "timeout"
    /\ hdSteps' = <<>>
    /\ UNCHANGED <<pingTimers, keptAtClose>>
    /\ reply' = NoReply
    /\ UNCHANGED <<port, portOpen, reconnectAttempts, reconnectTimeoutId,
                   pingIntervalId, messageQueue, confirmT, rTimers, nCalls, nSent,
                   nPings, writeErrors, written, userClosed>>
    /\ UNCHANGED <<backoffVars, inboundVars, syncVars, convertVars, flushVars>>

ClearReconnectTimeoutNot(timers, id) == timers
\* clearReconnectTimeout: clearTimeout(this.reconnectTimeoutId)
ClearReconnectTimeout(timers, id) == { r \in timers : r.id # id }

DisconnectStateKeep(st) == st
\* disconnect: this.setState('disconnected')
DisconnectState(st) == "disconnected"

\* disconnect()
Disconnect ==
    /\ pingIntervalId' = StopPingInterval(pingIntervalId, pingTimers).id
    /\ pingTimers' = StopPingInterval(pingIntervalId, pingTimers).timers
    /\ rTimers' = ClearReconnectTimeout(rTimers, reconnectTimeoutId)
    /\ reconnectTimeoutId' = 0
    /\ portOpen' = portOpen \ {port}
    /\ port' = 0
    /\ state' = DisconnectState(state)
    /\ notified' = Notify(state, DisconnectState(state))
    /\ emitted' = <<>>
    /\ lastOp' = "disconnect"
    /\ hdSteps' = <<>>
    /\ keptAtClose' = Len(messageQueue)
    /\ reply' = NoReply
    /\ userClosed' = TRUE
    /\ UNCHANGED <<reconnectAttempts, messageQueue, confirmT, timeoutT, promise,
                   nCalls, nSent, nPings, writeErrors, written>>
    /\ UNCHANGED <<backoffVars, inboundVars, syncVars, convertVars, flushVars>>

\* a SEND_TO_NATIVE request from a content script: the service worker calls
\* sendMessage(m) with the next application message and replies
Send ==
    /\ nSent + nPings < MaxSends
    /\ \E fail \in BOOLEAN :
         LET r == SendMessage(state, port, messageQueue, written, nSent + 1, fail)
         IN  /\ fail = r.threw
             /\ fail => writeErrors < MaxWriteErrors
             /\ messageQueue' = r.queue
             /\ written' = r.written
             /\ writeErrors' = writeErrors + (IF fail THEN 1 ELSE 0)
             \* sendResponse({ sent, queued: !sent })
             /\ reply' = ReplyFor(r.ret)
    /\ nSent' = nSent + 1
    /\ emitted' = <<>>
    /\ notified' = <<>>
    /\ lastOp' = "send"
    /\ hdSteps' = <<>>
    /\ UNCHANGED <<pingTimers, keptAtClose>>
    /\ UNCHANGED <<state, port, portOpen, reconnectAttempts, reconnectTimeoutId,
                   pingIntervalId, confirmT, timeoutT, rTimers, promise, nCalls,
                   nPings, userClosed>>
    /\ UNCHANGED <<backoffVars, inboundVars, syncVars, convertVars, flushVars>>

\* the heartbeat interval fires: sendMessage(PING)
PingFire ==
    /\ pingTimers > 0
    /\ nSent + nPings < MaxSends
    /\ \E fail \in BOOLEAN :
         LET r == SendMessage(state, port, messageQueue, written, PING, fail)
         IN  /\ fail = r.threw
             /\ fail => writeErrors < MaxWriteErrors
             /\ messageQueue' = r.queue
             /\ written' = r.written
             /\ writeErrors' = writeErrors + (IF fail THEN 1 ELSE 0)
    /\ nPings' = nPings + 1
    /\ emitted' = <<>>
    /\ notified' = <<>>
    /\ lastOp' = "ping"
    /\ hdSteps' = <<>>
    /\ UNCHANGED <<pingTimers, keptAtClose>>
    /\ reply' = NoReply
    /\ UNCHANGED <<state, port, portOpen, reconnectAttempts, reconnectTimeoutId,
                   pingIntervalId, confirmT, timeoutT, rTimers, promise, nCalls,
                   nSent, userClosed>>
    /\ UNCHANGED <<backoffVars, inboundVars, syncVars, convertVars, flushVars>>

\* the onDisconnect listener of open handle p runs: handleDisconnect(), which
\* ends with attemptReconnect()
PortDisconnect ==
    /\ \E p \in portOpen :
        /\ portOpen' = portOpen \ {p}
        /\ port' = 0
        /\ pingIntervalId' = StopPingInterval(pingIntervalId, pingTimers).id
        /\ pingTimers' = StopPingInterval(pingIntervalId, pingTimers).timers
        /\ hdSteps' = HandleDisconnectSteps(state, MaxAttemptsReached(reconnectAttempts))
        /\ LET lost == IF LostWhen(state)
                       THEN <<ConnectionFailed("lost")>> ELSE <<>>
           IN  IF MaxAttemptsReached(reconnectAttempts)
               THEN /\ emitted' = lost \o <<ConnectionFailed("max")>>
                    /\ state' = "disconnected"
                    /\ notified' = Notify(state, "disconnected")
                    /\ UNCHANGED <<reconnectAttempts, reconnectTimeoutId, rTimers>>
               ELSE /\ emitted' = lost
                    /\ state' = "reconnecting"
                    /\ notified' = Notify(state, "disconnected") \o <<"reconnecting">>
                    /\ reconnectAttempts' = reconnectAttempts + 1
                    /\ reconnectTimeoutId' = p
                    /\ rTimers' = rTimers \cup
                         {[id |-> p, at |-> nCalls,
                           delay |-> ReconnectDelayFor(DefaultReconnectDelay,
                                                       reconnectAttempts + 1,
                                                       DefaultMaxReconnectDelay)]}
    /\ lastOp' = "portDisconnect"
    /\ UNCHANGED keptAtClose
    /\ reply' = NoReply
    /\ UNCHANGED <<messageQueue, confirmT, timeoutT, promise, nCalls, nSent, nPings,
                   writeErrors, written, userClosed>>
    /\ UNCHANGED <<backoffVars, inboundVars, syncVars, convertVars, flushVars>>

Next ==
    \/ Connect
    \/ ReconnectFire
    \/ ConfirmFire
    \/ TimeoutFire
    \/ Disconnect
    \/ Send
    \/ PingFire
    \/ PortDisconnect

Spec == Init /\ [][Next]_vars

\* The bridge with its timers: an armed timer whose callback can run does run
\* (confirmation, connect-timeout, reconnect and heartbeat timers); calls made
\* by the application and transport notifications may or may not happen.
SpecLive ==
    /\ Init /\ [][Next]_vars
    /\ WF_vars(ConfirmFire)
    /\ WF_vars(TimeoutFire)
    /\ WF_vars(ReconnectFire)
    /\ WF_vars(PingFire)

\* ------------------------------------------------------- inbound messages
Handlers == 1..MaxHandlers

\* What the transport can hand to the receive callback (rawMessage: unknown):
\* a PONG message, another message of the Message type, null or undefined,
\* a primitive value, an object without a type field.
RawMessages == {"PONG", "COMMAND", "null", "number", "untyped"}

\* the messages of the Message type
WellFormed(raw) == raw \in {"PONG", "COMMAND"}

\* message.type raises a TypeError only when the value is null or undefined
ReadTypeThrows(raw) == raw = "null"

\* message.type for a value on which the property read does not raise
TypeOf(raw) == IF WellFormed(raw) THEN raw ELSE "undefined"

InvalidMessage == [code |-> "INVALID_MESSAGE", message |-> "invalid"]

Range(seq) == { seq[i] : i \in DOMAIN seq }

RECURSIVE ForEachHandler(_, _)
\* this.messageHandlers.forEach(handler => handler(message)): the handlers are
\* called in insertion order; an exception thrown by one of them (T: the
\* handlers that throw) ends the iteration
ForEachHandler(hs, T) ==
    IF hs = <<>> THEN [delivered |-> <<>>, threw |-> FALSE]
    ELSE IF Head(hs) \in T THEN [delivered |-> <<Head(hs)>>, threw |-> TRUE]
    ELSE LET r == ForEachHandler(Tail(hs), T)
         IN  [delivered |-> <<Head(hs)>> \o r.delivered, threw |-> r.threw]

IsPongNever(raw) == FALSE
\* if (message.type === 'PONG') return;
IsPong(raw) == TypeOf(raw) = "PONG"

CatchSilent(threw) == <<>>
\* the catch block of handleIncomingMessage: emitError('INVALID_MESSAGE', ...)
\* when anything in the try block raised
Catch(threw) == IF threw THEN <<InvalidMessage>> ELSE <<>>

\* handleIncomingMessage(rawMessage) with registered handlers hs
HandleIncomingMessage(raw, hs, T) ==
    IF ReadTypeThrows(raw)
    THEN [delivered |-> <<>>, emitted |-> Catch(TRUE)]
    ELSE IF IsPong(raw)
    THEN [delivered |-> <<>>, emitted |-> <<>>]
    ELSE LET r == ForEachHandler(hs, T)
         IN  [delivered |-> r.delivered, emitted |-> Catch(r.threw)]

\* onMessage(handler): Set.add
OnMessage ==
    /\ \E h \in Handlers :
         messageHandlers' = IF h \in Range(messageHandlers) THEN messageHandlers
                            ELSE Append(messageHandlers, h)
    /\ UNCHANGED <<lastRaw, throwers, delivered>>
    /\ UNCHANGED <<bridgeVars, backoffVars, syncVars, convertVars, flushVars>>

\* the function returned by onMessage(handler): Set.delete
Unsubscribe ==
    /\ \E h \in Handlers :
         messageHandlers' = SelectSeq(messageHandlers, LAMBDA x : x # h)
    /\ UNCHANGED <<lastRaw, throwers, delivered>>
    /\ UNCHANGED <<bridgeVars, backoffVars, syncVars, convertVars, flushVars>>

\* the onMessage listener of an open handle runs: handleIncomingMessage(raw)
PortMessage ==
    /\ portOpen # {}
    /\ \E raw \in RawMessages, T \in SUBSET Handlers :
         LET r == HandleIncomingMessage(raw, messageHandlers, T)
         IN  /\ lastRaw' = raw
             /\ throwers' = T
             /\ delivered' = r.delivered
             /\ emitted' = r.emitted
    /\ notified' = <<>>
    /\ lastOp' = "message"
    /\ hdSteps' = <<>>
    /\ UNCHANGED <<pingTimers, keptAtClose>>
    /\ reply' = NoReply
    /\ UNCHANGED messageHandlers
    /\ UNCHANGED <<state, port, reconnectAttempts, reconnectTimeoutId, pingIntervalId,
                   messageQueue, portOpen, confirmT, timeoutT, rTimers, promise,
                   nCalls, nSent, nPings, writeErrors, written, userClosed>>
    /\ UNCHANGED <<backoffVars, syncVars, convertVars, flushVars>>

\* The bridge Connected on the handle of its first connect() call (the state
\* after connect() and its confirmation callback), no handler registered yet.
InitInbound ==
    /\ state = "connected"
    /\ port = 1
    /\ reconnectAttempts = 0
    /\ reconnectTimeoutId = 0
    /\ pingIntervalId = TRUE
    /\ messageQueue = <<>>
    /\ portOpen = {1}
    /\ confirmT = {}
    /\ timeoutT = {}
    /\ rTimers = {}
    /\ promise = [c \in CallIds |-> IF c = 1 THEN "resolved" ELSE "none"]
    /\ nCalls = 1
    /\ nSent = 0
    /\ nPings = 0
    /\ writeErrors = 0
    /\ written = <<PING>>
    /\ emitted = <<>>
    /\ notified = <<"connected">>
    /\ lastOp = "confirm"
    /\ userClosed = FALSE
    /\ reply = NoReply
    /\ pingTimers = 1
    /\ hdSteps = <<>>
    /\ keptAtClose = 0
    /\ bBase = DefaultReconnectDelay
    /\ bMax = DefaultMaxReconnectDelay
    /\ bN = 0
    /\ bDelay = 0
    /\ InboundIdle
    /\ SyncIdle
    /\ ConvertIdle

\* message handlers and inbound messages on a Connected bridge
NextInbound ==
    \/ OnMessage
    \/ Unsubscribe
    \/ PortMessage

SpecInbound == InitInbound /\ [][NextInbound]_vars

\* ------------------------------------------------- RealTimeSyncService
\* Time is in ms and advances in steps of 100; a timer fires at its deadline.
\* A raw mutation is named by what the filter of handleMutations looks at:
\* "attributes", "characterData" and "childList" are changes outside
\* script/style/noscript elements ("childList" with added or removed nodes),
\* "script" is any change whose target is a script, style or noscript element,
\* "childListEmpty" is a childList change with no added and no removed node.
RawMutations == {"attributes", "characterData", "childList", "script",
                 "childListEmpty"}

IsSignificantAll(mu) == TRUE
\* the filter of handleMutations
IsSignificant(mu) == mu \notin {"script", "childListEmpty"}

\* the mutation lists a MutationObserver callback is given
Batches ==
    { <<"attributes">>, <<"childListEmpty", "script">>,
      <<"characterData", "script", "childList">>,
      [i \in 1..BulkSize |-> "attributes"] }

PageScraped == [type |-> "PAGE_SCRAPED", changes |-> <<>>, timestamp |-> 0]
DomChanged(changes, t) == [type |-> "DOM_CHANGED", changes |-> changes, timestamp |-> t]

\* significantMutations.map(convertMutationRecord): the records are numbered
\* n + 1, n + 2, ... in the order of the mutations
Records(sig, n) == [i \in 1..Len(sig) |-> [id |-> n + i]]

CapPendingOff(p) == p
CapPendingOldest(p) ==
    IF Len(p) > MaxPending THEN SubSeq(p, 1, MaxPending) ELSE p
\* if (pendingMutations.length > 100) pendingMutations = pendingMutations.slice(-100)
CapPending(p) ==
    IF Len(p) > MaxPending THEN SubSeq(p, Len(p) - MaxPending + 1, Len(p)) ELSE p

DebounceKeepTimer(id, t, delay) == IF id # 0 THEN id ELSE t + delay
\* the function returned by debounce(fn, delay), called at time t: the armed
\* timer, if any, is cleared and a new one is armed for t + delay
Debounce(id, t, delay) == t + delay

StartIsNoopNever(obs) == FALSE
\* start: if (this.isObserving) { return; }
StartIsNoop(obs) == obs

RECURSIVE Repeat(_, _)
\* seq repeated n times: a change is reported to every attached observer
Repeat(seq, n) == IF n <= 0 THEN <<>> ELSE seq \o Repeat(seq, n - 1)

\* start()
Start ==
    /\ IF StartIsNoop(isObserving)
       THEN /\ sent' = <<>>
            /\ UNCHANGED <<isObserving, observer, started, attached>>
       ELSE /\ sent' = <<PageScraped>>
            /\ observer' = TRUE
            /\ attached' = attached + 1
            /\ isObserving' = TRUE
            /\ started' = TRUE
    /\ lastBatch' = <<>>
    /\ UNCHANGED <<pendingMutations, timeoutId, now, nRecords, burstStart,
                   lastEventAt, nCallbacks, emittedIds>>
    /\ UNCHANGED <<bridgeVars, backoffVars, inboundVars, convertVars, flushVars>>

StopPendingKeep(p) == p
\* stop: this.pendingMutations = []
StopPending(p) == <<>>

\* stop(): the debounce timer is not cleared
Stop ==
    /\ observer' = FALSE
    /\ isObserving' = FALSE
    /\ pendingMutations' = StopPending(pendingMutations)
    \* if (this.observer) { this.observer.disconnect(); this.observer = null; }
    /\ attached' = IF observer THEN attached - 1 ELSE attached
    /\ burstStart' = nRecords
    /\ sent' = <<>>
    /\ lastBatch' = <<>>
    /\ UNCHANGED <<timeoutId, now, nRecords, lastEventAt, nCallbacks, emittedIds,
                   started>>
    /\ UNCHANGED <<bridgeVars, backoffVars, inboundVars, convertVars, flushVars>>

\* the attached MutationObserver calls handleMutations(mutations)
HandleMutations ==
    /\ attached > 0
    /\ nCallbacks < MaxCallbacks
    /\ \E mutations \in Batches :
         LET significantMutations ==
                 Repeat(SelectSeq(mutations, IsSignificant), attached)
             records == Records(significantMutations, nRecords)
         IN  /\ lastBatch' = mutations
             /\ IF Len(significantMutations) = 0
                THEN UNCHANGED <<pendingMutations, timeoutId, nRecords, lastEventAt,
                                 nCallbacks>>
                ELSE
                  /\ pendingMutations' = CapPending(pendingMutations \o records)
                  /\ nRecords' = nRecords + Len(records)
                  /\ nCallbacks' = nCallbacks + 1
                  /\ timeoutId' = Debounce(timeoutId, now, DefaultDebounceDelay)
                  /\ lastEventAt' = now
    /\ sent' = <<>>
    /\ UNCHANGED <<isObserving, observer, now, burstStart, emittedIds, started,
                   attached>>
    /\ UNCHANGED <<bridgeVars, backoffVars, inboundVars, convertVars, flushVars>>

SyncToNativeHostEmpty(p, t) ==
    [sent |-> <<DomChanged(p, t), PageScraped>>, pending |-> <<>>]
SyncToNativeHostKeep(p, t) ==
    IF Len(p) = 0 THEN [sent |-> <<>>, pending |-> p]
    ELSE [sent |-> <<DomChanged(p, t), PageScraped>>, pending |-> p]
SyncToNativeHostNoScrape(p, t) ==
    IF Len(p) = 0 THEN [sent |-> <<>>, pending |-> p]
    ELSE [sent |-> <<DomChanged(p, t)>>, pending |-> <<>>]
\* syncToNativeHost() at time t with pending list p: nothing when p is empty,
\* else DOM_CHANGED with a copy of p, p cleared, then sendPageScraped()
SyncToNativeHost(p, t) ==
    IF Len(p) = 0 THEN [sent |-> <<>>, pending |-> p]
    ELSE [sent |-> <<DomChanged(p, t), PageScraped>>, pending |-> <<>>]

\* the DOM_CHANGED messages among the messages sent by a handler
DomChangedOf(msgs) == SelectSeq(msgs, LAMBDA m : m.type = "DOM_CHANGED")

\* the numbers of the records carried by the messages msgs
IdsOf(msgs) ==
    UNION { { msgs[i].changes[j].id : j \in DOMAIN msgs[i].changes } :
            i \in DOMAIN msgs }

\* the debounce timer fires: syncToNativeHost(); timeoutId = null
DebounceFire ==
    /\ timeoutId # 0
    /\ now = timeoutId
    /\ timeoutId' = 0
    /\ LET r == SyncToNativeHost(pendingMutations, now)
       IN  /\ sent' = r.sent
           /\ pendingMutations' = r.pending
           /\ IF DomChangedOf(r.sent) # <<>>
              THEN /\ burstStart' = nRecords
                   /\ emittedIds' = emittedIds \cup IdsOf(r.sent)
              ELSE UNCHANGED <<burstStart, emittedIds>>
    /\ lastBatch' = <<>>
    /\ UNCHANGED <<isObserving, observer, now, nRecords, lastEventAt, nCallbacks,
                   started, attached>>
    /\ UNCHANGED <<bridgeVars, backoffVars, inboundVars, convertVars, flushVars>>

\* 100 ms pass; time does not pass the deadline of an armed timer
Tick ==
    /\ now + 100 <= MaxTicks * 100
    /\ timeoutId = 0 \/ now < timeoutId
    /\ now' = now + 100
    /\ sent' = <<>>
    /\ lastBatch' = <<>>
    /\ UNCHANGED <<isObserving, observer, pendingMutations, timeoutId, nRecords,
                   burstStart, lastEventAt, nCallbacks, emittedIds, started,
                   attached>>
    /\ UNCHANGED <<bridgeVars, backoffVars, inboundVars, convertVars, flushVars>>

NextSync ==
    \/ Start
    \/ Stop
    \/ HandleMutations
    \/ DebounceFire
    \/ Tick

SpecSync == Init /\ [][NextSync]_vars

\* --------------------------------------------------- the backoff policy alone
BackoffBases == {100, 250, 500, 1000}
BackoffMaxima == {1000, 5000, 30000, 60000}

InitBackoff ==
    /\ state = "disconnected"
    /\ port = 0
    /\ reconnectAttempts = 0
    /\ reconnectTimeoutId = 0
    /\ pingIntervalId = FALSE
    /\ messageQueue = <<>>
    /\ portOpen = {}
    /\ confirmT = {}
    /\ timeoutT = {}
    /\ rTimers = {}
    /\ promise = [c \in CallIds |-> "none"]
    /\ nCalls = 0
    /\ nSent = 0
    /\ nPings = 0
    /\ writeErrors = 0
    /\ written = <<>>
    /\ emitted = <<>>
    /\ notified = <<>>
    /\ lastOp = "init"
    /\ userClosed = FALSE
    /\ reply = NoReply
    /\ pingTimers = 0
    /\ hdSteps = <<>>
    /\ keptAtClose = 0
    /\ bBase \in BackoffBases
    /\ bMax \in BackoffMaxima
    /\ bN = 0
    /\ bDelay = 0
    /\ InboundIdle
    /\ SyncIdle
    /\ ConvertIdle

\* attemptReconnect's increment and delay computation for the next attempt
BackoffStep ==
    /\ bN < MaxBackoffN
    /\ bN' = bN + 1
    /\ bDelay' = ReconnectDelayFor(bBase, bN + 1, bMax)
    /\ UNCHANGED <<bBase, bMax>>
    /\ UNCHANGED <<bridgeVars, inboundVars, syncVars, convertVars, flushVars>>

NextBackoff == BackoffStep

SpecBackoff == InitBackoff /\ [][NextBackoff]_vars

\* ------------------------------------------------- convertMutationRecord
\* A node of a NodeList: a text node, or an element with an id attribute
\* (the k-th element of its list has id k).
TextNode == [kind |-> "text"]
ElementNode(k) == [kind |-> "element", tag |-> "DIV", id |-> k]

\* node instanceof Element
IsElement(node) == node.kind = "element"

\* tagName.toLowerCase()
ToLowerCase(tag) == IF tag = "DIV" THEN "div" ELSE tag

\* getElementPath for an element with an id: the loop stops at the first
\* element that has one, and the path is the single selector tag#id
GetElementPath(el) == <<[selector |-> ToLowerCase(el.tag), hash |-> el.id]>>

\* elements.map(getElementPath)
MapGetElementPath(elements) == [i \in DOMAIN elements |-> GetElementPath(elements[i])]

SliceLast(seq, n) == SubSeq(seq, Len(seq) - Min(n, Len(seq)) + 1, Len(seq))
\* seq.slice(0, n)
Slice(seq, n) == SubSeq(seq, 1, Min(n, Len(seq)))

\* Array.from(nodes).filter(node instanceof Element).map(getElementPath).slice(0, 10)
PathsOf(nodes) == Slice(MapGetElementPath(SelectSeq(nodes, IsElement)), MaxPaths)

\* convertMutationRecord, for an event of type t; the fields of attributes and
\* characterData records are left out
ConvertMutationRecord(t, added, removed) ==
    IF t = "childList"
    THEN [type |-> t, addedNodes |-> PathsOf(added), removedNodes |-> PathsOf(removed)]
    ELSE [type |-> t]

\* the nodes that can come next in a list: a text node or the next element
NextNodes(nodes) ==
    (IF Len(SelectSeq(nodes, LAMBDA x : ~IsElement(x))) < MaxTextNodes
     THEN {TextNode} ELSE {})
    \cup {ElementNode(Len(SelectSeq(nodes, IsElement)) + 1)}

\* a mutation event starts: its type is fixed
BeginMutation ==
    /\ mType = "none"
    /\ \E t \in {"childList", "attributes", "characterData"} : mType' = t
    /\ UNCHANGED <<addedNodes, removedNodes, record>>
    /\ UNCHANGED <<bridgeVars, backoffVars, inboundVars, syncVars, flushVars>>

\* one more node was added by the childList change
NodeAdded ==
    /\ mType = "childList" /\ record = NoRecord
    /\ Len(addedNodes) + Len(removedNodes) < MaxNodes
    /\ \E node \in NextNodes(addedNodes) : addedNodes' = Append(addedNodes, node)
    /\ UNCHANGED <<mType, removedNodes, record>>
    /\ UNCHANGED <<bridgeVars, backoffVars, inboundVars, syncVars, flushVars>>

\* one more node was removed by the childList change
NodeRemoved ==
    /\ mType = "childList" /\ record = NoRecord
    /\ Len(addedNodes) + Len(removedNodes) < MaxNodes
    /\ \E node \in NextNodes(removedNodes) : removedNodes' = Append(removedNodes, node)
    /\ UNCHANGED <<mType, addedNodes, record>>
    /\ UNCHANGED <<bridgeVars, backoffVars, inboundVars, syncVars, flushVars>>

\* records.map(convertMutationRecord) reaches the event
Convert ==
    /\ mType # "none" /\ record = NoRecord
    /\ record' = ConvertMutationRecord(mType, addedNodes, removedNodes)
    /\ UNCHANGED <<mType, addedNodes, removedNodes>>
    /\ UNCHANGED <<bridgeVars, backoffVars, inboundVars, syncVars, flushVars>>

NextConvert ==
    \/ BeginMutation
    \/ NodeAdded
    \/ NodeRemoved
    \/ Convert

SpecConvert == Init /\ [][NextConvert]_vars

\* ------------------------------------------- flushMessageQueue, stepwise
\* The queues flushMessageQueue can be given by the confirmation callback: the
\* probe queued by connect() and application messages 1..k in call order
FlushQueues ==
    { q \in UNION { [1..n -> 0..MaxQueue] : n \in 1..MaxQueue } :
        /\ PING \in Range(q)
        /\ \A i, j \in DOMAIN q : (i < j /\ q[i] # PING /\ q[j] # PING) => q[i] < q[j]
        /\ \A m \in Range(q) : \A k \in 1..m : k \in Range(q) }

\* the confirmation callback of connect call 1 has reached line 117 and calls
\* flushMessageQueue(); the promise is resolved after the flush returns
InitFlush ==
    /\ state = "connected"
    /\ port = 1
    /\ reconnectAttempts = 0
    /\ reconnectTimeoutId = 0
    /\ pingIntervalId = TRUE
    /\ \E q \in FlushQueues :
         /\ messageQueue = q
         /\ nSent = Cardinality(Range(q) \ {PING})
    /\ portOpen = {1}
    /\ confirmT = {}
    /\ timeoutT = {}
    /\ rTimers = {}
    /\ promise = [c \in CallIds |-> IF c = 1 THEN "pending" ELSE "none"]
    /\ nCalls = 1
    /\ nPings = 0
    /\ writeErrors = 0
    /\ written = <<>>
    /\ emitted = <<>>
    /\ notified = <<"connected">>
    /\ lastOp = "confirm"
    /\ userClosed = FALSE
    /\ reply = NoReply
    /\ pingTimers = 1
    /\ hdSteps = <<>>
    /\ keptAtClose = 0
    /\ bBase = DefaultReconnectDelay
    /\ bMax = DefaultMaxReconnectDelay
    /\ bN = 0
    /\ bDelay = 0
    /\ InboundIdle
    /\ SyncIdle
    /\ mType = "none"
    /\ addedNodes = <<>>
    /\ removedNodes = <<>>
    /\ record = NoRecord
    /\ flushPc = "loop"

\* one evaluation of the while condition of flushMessageQueue and, when it
\* holds, one iteration: sendMessage(queue.shift()); the write may raise.
\* Raised writes are counted up to MaxWriteErrors.
FlushStep ==
    /\ flushPc = "loop"
    /\ IF Len(messageQueue) > 0 /\ state = "connected"
       THEN /\ \E fail \in BOOLEAN :
                 LET r == SendMessage(state, port, Tail(messageQueue), written,
                                      Head(messageQueue), fail)
                 IN  /\ fail = r.threw
                     /\ messageQueue' = r.queue
                     /\ written' = r.written
                     /\ writeErrors' = IF fail THEN Min(writeErrors + 1, MaxWriteErrors)
                                       ELSE writeErrors
            /\ UNCHANGED <<flushPc, promise>>
       ELSE \* the loop ends; the callback goes on to resolve()
            /\ flushPc' = "done"
            /\ promise' = Settle(promise, 1, "resolved")
            /\ UNCHANGED <<messageQueue, written, writeErrors>>
    /\ UNCHANGED <<state, port, portOpen, reconnectAttempts, reconnectTimeoutId,
                   pingIntervalId, confirmT, timeoutT, rTimers, nCalls, nSent, nPings,
                   emitted, notified, lastOp, userClosed, reply, pingTimers, hdSteps,
                   keptAtClose>>
    /\ UNCHANGED <<backoffVars, inboundVars, syncVars, convertVars>>

NextFlush == FlushStep

\* the loop is synchronous code: it keeps running until its condition fails
SpecFlush == InitFlush /\ [][NextFlush]_vars /\ WF_vars(FlushStep)

\* ------------------------------------------------------------------ claims
\* occurrences of m in a sequence
Count(seq, m) == Cardinality({ i \in DOMAIN seq : seq[i] = m })

\* C1: at the transition into Connected the messages queued so far (sent while
\* Disconnected, Connecting or Reconnecting) are written to the transport in
\* their sendMessage order, and none is left to be written after a later message.
C1_QueuedWrittenInOrder ==
    [][ (state # "connected" /\ state' = "connected")
          => (written' = written \o messageQueue /\ messageQueue' = <<>>) ]_vars

\* C2: no message is ever dropped: every application message passed to
\* sendMessage is, exactly once in total, either in the transport log or still
\* in the outbound queue, and nothing else is.
C2_NoMessageDropped ==
    /\ \A m \in 1..nSent : Count(written, m) + Count(messageQueue, m) = 1
    /\ \A i \in DOMAIN written : written[i] \in 0..nSent
    /\ \A i \in DOMAIN messageQueue : messageQueue[i] \in 0..nSent

\* C2 witness: an application message whose transport write raised an error
\* while Connected sits in the outbound queue.
C2_Witness ==
    /\ state = "connected"
    /\ writeErrors >= 1
    /\ Count(messageQueue, 1) = 1
    /\ Count(written, 1) = 0

\* C3: at most one transport handle opened by the bridge is open at any time.
C3_AtMostOneOpenHandle == Cardinality(portOpen) <= 1

\* C4: when disconnect() returns, no reconnect timer and no heartbeat timer
\* scheduled before the call is still armed (an armed reconnect timer fires
\* and calls connect(); an armed heartbeat sends or queues a probe).
C4_DisconnectCancelsTimers ==
    lastOp = "disconnect" => (rTimers = {} /\ ~pingIntervalId)

\* C5: the confirmation or connect-timeout timer of a connect() call whose
\* handle is no longer the bridge's handle (the attempt was superseded) fires
\* as a no-op: state, heartbeat, queue, transport log, attempt counter and all
\* promises are unchanged.
C5_StaleTimerNoop ==
    [][ \A c \in CallIds :
          (/\ port # c
           /\ \/ (c \in confirmT /\ c \notin confirmT')
              \/ (c \in timeoutT /\ c \notin timeoutT' /\ c \notin confirmT))
          => UNCHANGED <<state, pingIntervalId, messageQueue, written, promise,
                         reconnectAttempts>> ]_vars

\* the bridge has given up reconnecting and holds no armed reconnect timer and
\* no open handle
TerminalFailure ==
    /\ state = "disconnected"
    /\ reconnectAttempts >= CfgReconnectAttempts
    /\ rTimers = {}
    /\ portOpen = {}

\* C6: a disconnect notification that ends a failed attempt when the attempt
\* counter has reached config.reconnectAttempts emits exactly one
\* CONNECTION_FAILED error, leaves the bridge Disconnected and arms no reconnect
\* timer; from then on the bridge stays Disconnected, with no reconnect timer,
\* in every step that is not a connect() call.
C6_TerminalFailureOnce ==
    [][ /\ (/\ lastOp' = "portDisconnect"
            /\ portOpen' # portOpen
            /\ state # "connected"
            /\ reconnectAttempts >= CfgReconnectAttempts)
           => (/\ emitted' = <<ConnectionFailed("max")>>
               /\ state' = "disconnected"
               /\ rTimers' = rTimers
               /\ reconnectAttempts' = reconnectAttempts)
        /\ (TerminalFailure /\ nCalls' = nCalls)
           => (state' = "disconnected" /\ rTimers' = {}) ]_vars

\* C6 witness: the terminal failure has just been reported, after reconnect
\* attempts that were each ended by a disconnect notification.
C6_Witness ==
    /\ lastOp = "portDisconnect"
    /\ emitted = <<ConnectionFailed("max")>>
    /\ TerminalFailure
    /\ reconnectAttempts = CfgReconnectAttempts
    /\ nCalls = CfgReconnectAttempts + 1
    /\ reconnectTimeoutId # 0
    /\ ~userClosed

\* the delays the specification lists for reconnectDelay 1000, maxReconnectDelay 30000
DefaultDelayTable(n) ==
    IF n = 1 THEN 1000
    ELSE IF n = 2 THEN 2000
    ELSE IF n = 3 THEN 4000
    ELSE IF n = 4 THEN 8000
    ELSE IF n = 5 THEN 16000
    ELSE 30000

\* C7: the delay armed for the n-th consecutive attempt is the smaller of
\* reconnectDelay * 2^(n-1) and maxReconnectDelay, never exceeds
\* maxReconnectDelay, is non-decreasing in n, and for base 1000 and maximum
\* 30000 is 1000, 2000, 4000, 8000, 16000, 30000, 30000, ...
C7_BackoffDelay ==
    /\ [](bN >= 1 =>
            /\ bDelay <= bMax
            /\ bDelay <= bBase * Pow2(bN - 1)
            /\ bDelay \in {bMax, bBase * Pow2(bN - 1)}
            /\ (bBase = DefaultReconnectDelay /\ bMax = DefaultMaxReconnectDelay)
                 => bDelay = DefaultDelayTable(bN))
    /\ [][bN >= 1 => bDelay' >= bDelay]_vars

\* C7 witness: the seventh delay of the default configuration is the ceiling.
C7_Witness ==
    /\ bBase = DefaultReconnectDelay
    /\ bMax = DefaultMaxReconnectDelay
    /\ bN = 7
    /\ bDelay = 30000

\* C8: after disconnect() the bridge is Disconnected and holds no handle, and
\* stays so until connect() is called explicitly.
C8_StaysDisconnected ==
    userClosed => (state = "disconnected" /\ port = 0)

\* C9: a connect() promise that is still pending has a timer of its own call
\* armed that can settle it (only the two timers of a call hold its resolve
\* and reject functions).
C9_PromiseSettled ==
    \A c \in 1..nCalls :
        promise[c] = "pending" => (c \in confirmT \/ c \in timeoutT)

\* C10: connect() called while Connected changes nothing (state, handle, queue,
\* attempt counter, timers, transport log), runs no state-change handler and
\* returns a resolved promise.
C10_ConnectWhileConnectedNoop ==
    [][ (nCalls' # nCalls /\ state = "connected")
          => (/\ UNCHANGED <<state, port, portOpen, messageQueue, reconnectAttempts,
                             reconnectTimeoutId, pingIntervalId, confirmT, timeoutT,
                             written>>
              /\ lastOp' = "connect" => rTimers' = rTimers
              /\ notified' = <<>>
              /\ emitted' = <<>>
              /\ promise'[nCalls'] = "resolved") ]_vars

\* C10 witness: the second connect() call was made while Connected on the
\* handle of the first call.
C10_Witness ==
    /\ lastOp = "connect"
    /\ nCalls = 2
    /\ state = "connected"
    /\ port = 1
    /\ promise[2] = "resolved"
    /\ timeoutT = {}

\* C11: the transport log followed by the outbound queue is always the
\* sequence of sendMessage calls in call order: a handler changes it only by
\* appending the message it sends, so no message queued earlier is written
\* after a message sent later, also when a transport write raises an error.
C11_WriteOrderIsCallOrder ==
    [][ \/ written' \o messageQueue' = written \o messageQueue
        \/ \E m \in {PING, nSent'} :
             written' \o messageQueue' = Append(written \o messageQueue, m) ]_vars

\* C12: a sendMessage call made for a SEND_TO_NATIVE request returns true
\* exactly when it wrote the message to the transport and false exactly when
\* it appended the message to the outbound queue (state not Connected, no
\* handle, or the write raised an error); it calls no error handler and
\* changes nothing else, and the reply has exactly one of sent / queued true.
C12_SendReturnsWrittenOrQueued ==
    [][ nSent' # nSent =>
          LET m == nSent'
          IN  /\ reply'.sent # reply'.queued
              /\ reply'.sent <=> (/\ written' = Append(written, m)
                                  /\ messageQueue' = messageQueue)
              /\ reply'.queued <=> (/\ messageQueue' = Append(messageQueue, m)
                                    /\ written' = written)
              /\ (state # "connected" \/ port = 0) => reply'.queued
              /\ writeErrors' # writeErrors => reply'.queued
              /\ emitted' = <<>>
              /\ UNCHANGED <<state, port, portOpen, promise>> ]_vars

\* C12 witness: a request sent while Connected whose transport write raised
\* an error was answered "queued".
C12_Witness ==
    /\ lastOp = "send"
    /\ state = "connected"
    /\ port # 0
    /\ writeErrors = 1
    /\ reply = [sent |-> FALSE, queued |-> TRUE]
    /\ messageQueue = <<1>>

C14_ConnectFailureBroadcast ==
    [][ (\E c \in CallIds : promise[c] # "rejected" /\ promise'[c] = "rejected")
          => emitted' # <<>> ]_vars

UpToFirstThrower(hs, T) ==
    LET idx == { i \in DOMAIN hs : hs[i] \in T }
    IN  IF idx = {} THEN hs
        ELSE SubSeq(hs, 1, CHOOSE i \in idx : \A j \in idx : i <= j)

\* C16 as stated: a PONG is given to no message handler; every other
\* well-formed inbound message is given exactly once to every registered
\* handler and to no other.
C16_DispatchedToEveryHandler ==
    [][ (messageHandlers' = messageHandlers /\ WellFormed(lastRaw'))
          => IF lastRaw' = "PONG"
             THEN delivered' = <<>>
             ELSE /\ Range(delivered') = Range(messageHandlers)
                  /\ Len(delivered') = Len(messageHandlers) ]_vars

\* C16 amended: a PONG is given to no message handler; every other well-formed
\* inbound message is given exactly once, in registration order, to the
\* registered handlers up to and including the first one that throws (to all
\* of them when none throws), and to no handler that is not registered.
C16_DispatchedUntilThrow ==
    [][ (messageHandlers' = messageHandlers /\ WellFormed(lastRaw'))
          => IF lastRaw' = "PONG"
             THEN delivered' = <<>>
             ELSE delivered' = UpToFirstThrower(messageHandlers, throwers') ]_vars

\* C16 witness: with two handlers registered a well-formed message other than
\* PONG was given to the first one, which threw, and not to the second.
C16_Witness ==
    /\ lastOp = "message"
    /\ lastRaw = "COMMAND"
    /\ Len(messageHandlers) = 2
    /\ throwers = {messageHandlers[1]}
    /\ delivered = <<messageHandlers[1]>>

\* C17: a malformed inbound message (null, undefined, a primitive value, an
\* object without a type) is reported to the error handlers as
\* INVALID_MESSAGE, is given to no message handler and leaves the connection
\* state, handle, queue and timers unchanged.
C17_MalformedReportedAndDropped ==
    [][ (messageHandlers' = messageHandlers /\ lastRaw' # "none"
         /\ ~WellFormed(lastRaw'))
          => (/\ emitted' = <<InvalidMessage>>
              /\ delivered' = <<>>
              /\ UNCHANGED <<state, port, portOpen, messageQueue, pingIntervalId,
                             confirmT, timeoutT, rTimers>>) ]_vars

\* C18: when a reconnect made by the reconnect timer succeeds after the bridge
\* had been Connected before, every application message queued during the outage is written to the
\* transport in the step that enters Connected, before any liveness probe
\* written in or after that step.
C18_QueuedBeforeProbe ==
    [][ (/\ state # "connected" /\ state' = "connected"
         /\ reconnectAttempts >= 1
         /\ rTimers = {}
         /\ written # <<>>)
          => LET new == SubSeq(written', Len(written) + 1, Len(written'))
             IN  /\ \A i, j \in DOMAIN new :
                       (i < j /\ new[i] = PING) => new[j] = PING
                 /\ \A k \in DOMAIN messageQueue' : messageQueue'[k] = PING ]_vars

\* C19: a burst of N >= 1 records, accumulated since the last emission or
\* stop() by callbacks each of which re-arms the debounce timer, produces
\* exactly one DOM_CHANGED message: nothing is emitted in a step that
\* accumulates a record, the message is sent by the firing of the debounce
\* timer that ends the burst, and it holds the min(N, 100) most recent
\* records of the burst; a handler never sends more than one DOM_CHANGED.
C19_OneBatchPerBurst ==
    /\ [](pendingMutations # <<>> <=> nRecords > burstStart)
    /\ [][ LET N == nRecords - burstStart
               K == Min(N, MaxPending)
               batches == DomChangedOf(sent')
           IN  /\ Len(batches) <= 1
               /\ Len(batches) = 1
                    => /\ timeoutId # 0 /\ now = timeoutId /\ timeoutId' = 0
                       /\ nRecords' = nRecords
                       /\ N >= 1
                       /\ batches[1].changes =
                            [i \in 1..K |-> [id |-> nRecords - K + i]]
                       /\ pendingMutations' = <<>>
                       /\ burstStart' = nRecords
               /\ (timeoutId # 0 /\ timeoutId' = 0 /\ N >= 1) => Len(batches) = 1
               /\ nRecords' # nRecords
                    => (batches = <<>> /\ timeoutId' = now + DefaultDebounceDelay) ]_vars

\* C19 witness: a burst of more than 100 records was emitted as one
\* DOM_CHANGED message with its 100 most recent records.
C19_Witness ==
    /\ Len(sent) = 2
    /\ sent[1].type = "DOM_CHANGED"
    /\ Len(sent[1].changes) = MaxPending
    /\ sent[1].changes[1].id = nRecords - MaxPending + 1
    /\ sent[1].changes[1].id > 1
    /\ burstStart = nRecords

\* C20: while the pending list is non-empty the debounce timer is armed for
\* exactly debounceDelay after the last accumulated event and that time has
\* not passed, so the list never stays unflushed longer; every DOM_CHANGED
\* message is sent exactly debounceDelay after the last accumulated event and
\* carries the pending records in arrival order.
C20_FlushedAtDeadline ==
    /\ [](pendingMutations # <<>>
            => (/\ timeoutId = lastEventAt + DefaultDebounceDelay
                /\ now <= timeoutId))
    /\ [][ \A i \in DOMAIN sent' :
             sent'[i].type = "DOM_CHANGED"
             => (/\ now = lastEventAt + DefaultDebounceDelay
                 /\ now' = now
                 /\ sent'[i].timestamp = now
                 /\ sent'[i].changes = pendingMutations
                 /\ \A j \in 1..(Len(pendingMutations) - 1) :
                      pendingMutations[j + 1].id = pendingMutations[j].id + 1) ]_vars

\* C20 witness: five callbacks of one record each, the last at t = 400, were
\* emitted as one DOM_CHANGED message at t = 900 with the 5 records in order.
C20_Witness ==
    /\ now = 900
    /\ lastEventAt = 400
    /\ nCallbacks = 5
    /\ nRecords = 5
    /\ sent = <<DomChanged([i \in 1..5 |-> [id |-> i]], 900), PageScraped>>
    /\ pendingMutations = <<>>
    /\ timeoutId = 0

\* C21: the pending list never holds more than 100 records; when more than
\* 100 records have accumulated since the last emission (or stop()) it holds
\* exactly the 100 most recently accumulated ones, and otherwise all of them;
\* no DOM_CHANGED message carries more than 100 records.
C21_PendingCapped ==
    LET N == nRecords - burstStart
    IN  /\ Len(pendingMutations) <= MaxPending
        /\ N > MaxPending
             => pendingMutations =
                  [i \in 1..MaxPending |-> [id |-> nRecords - MaxPending + i]]
        /\ N <= MaxPending
             => pendingMutations = [i \in 1..N |-> [id |-> burstStart + i]]
        /\ \A i \in DOMAIN sent : Len(sent[i].changes) <= MaxPending

\* C21 witness: more than 100 records have accumulated and the pending list
\* holds the last 100 of them, the oldest ones evicted.
C21_Witness ==
    /\ nRecords - burstStart > MaxPending
    /\ Len(pendingMutations) = MaxPending
    /\ pendingMutations[1].id = nRecords - MaxPending + 1
    /\ pendingMutations[MaxPending].id = nRecords
    /\ timeoutId # 0

\* C22: the records of every DOM_CHANGED message are the pending records in
\* the order their change events arrived (ascending record numbers), none of
\* them was sent in an earlier DOM_CHANGED message, and the pending list is
\* empty after the emission.
C22_InOrderNeverRepeated ==
    [][ \A i \in DOMAIN sent' :
          sent'[i].type = "DOM_CHANGED"
          => LET ch == sent'[i].changes
             IN  /\ ch = pendingMutations
                 /\ \A j, k \in DOMAIN ch : j < k => ch[j].id < ch[k].id
                 /\ \A j \in DOMAIN ch : ch[j].id \notin emittedIds
                 /\ pendingMutations' = <<>> ]_vars

\* C22 witness: a second DOM_CHANGED message carries records 2 and 3 after
\* record 1 was sent in an earlier one.
C22_Witness ==
    /\ Len(sent) = 2
    /\ sent[1].type = "DOM_CHANGED"
    /\ sent[1].changes = <<[id |-> 2], [id |-> 3]>>
    /\ emittedIds = {1, 2, 3}
    /\ pendingMutations = <<>>

\* C23: a handler of the sync service sends nothing, or one PAGE_SCRAPED, or
\* one DOM_CHANGED immediately followed by one PAGE_SCRAPED; start() called
\* while not observing sends exactly one PAGE_SCRAPED; and no DOM_CHANGED is
\* sent before start() has sent its PAGE_SCRAPED.
C23_ScrapeFollowsBatch ==
    /\ [](emittedIds # {} => started)
    /\ [][ /\ \/ sent' = <<>>
              \/ sent' = <<PageScraped>>
              \/ /\ Len(sent') = 2
                 /\ sent'[1].type = "DOM_CHANGED"
                 /\ sent'[2] = PageScraped
                 /\ started
           /\ (~isObserving /\ isObserving') => sent' = <<PageScraped>>
           /\ (~started /\ started') => (sent' = <<PageScraped>> /\ emittedIds' = {}) ]_vars

\* C23 witness: after start() a DOM_CHANGED message was sent, immediately
\* followed by a PAGE_SCRAPED message.
C23_Witness ==
    /\ started
    /\ Len(sent) = 2
    /\ sent[1].type = "DOM_CHANGED"
    /\ sent[2].type = "PAGE_SCRAPED"
    /\ emittedIds # {}
    /\ isObserving

\* the raw events the claim calls discarded
Discarded(mu) == mu \in {"script", "childListEmpty"}

\* C24: in a handleMutations call every raw event whose target is a script,
\* style or noscript element, or that is a childList event without added or
\* removed nodes, adds no record, and every other raw event adds exactly one
\* record, at the end of the pending list in event order; a call with only
\* discarded events changes neither the pending list nor the debounce timer.
C24_FilterDiscards ==
    [][ lastBatch' # <<>> =>
          \E kept \in {Len(SelectSeq(lastBatch', LAMBDA mu : ~Discarded(mu)))} :
            /\ nRecords' = nRecords + kept
            /\ Len(pendingMutations') = Min(Len(pendingMutations) + kept, MaxPending)
            /\ \A j \in 1..Min(kept, MaxPending) :
                 pendingMutations'[Len(pendingMutations') - Min(kept, MaxPending) + j].id
                   = nRecords' - Min(kept, MaxPending) + j
            /\ kept = 0 => UNCHANGED <<pendingMutations, timeoutId, lastEventAt>>
            /\ kept > 0 => timeoutId' = now + DefaultDebounceDelay ]_vars

\* C24 witness: a callback with only discarded events ran while records were
\* pending, and the debounce timer kept its earlier deadline.
C24_Witness ==
    /\ lastBatch = <<"childListEmpty", "script">>
    /\ pendingMutations # <<>>
    /\ timeoutId # 0
    /\ timeoutId < now + DefaultDebounceDelay
    /\ lastEventAt < now

\* a transition the state machine allows
Allowed(a, b) ==
    /\ b = "connected" => a = "connecting"
    /\ b = "reconnecting" => a = "disconnected"
    /\ b = "connecting" => a \in {"disconnected", "reconnecting"}

\* C25: the bridge starts Disconnected, and every state change a handler makes
\* is a transition of the state machine: Connected is entered only from
\* Connecting, Reconnecting only from Disconnected, Connecting only from
\* Disconnected or Reconnecting.
C25_OnlyMachineTransitions ==
    /\ state = "disconnected"
    /\ [][ LET chain == <<state>> \o notified'
           IN  /\ chain[Len(chain)] = state'
               /\ \A i \in 1..(Len(chain) - 1) :
                    chain[i] # chain[i + 1] /\ Allowed(chain[i], chain[i + 1]) ]_vars

\* C25 witness: a bridge that was Connected lost its connection, went through
\* Disconnected and Reconnecting, and its reconnect timer has just moved it to
\* Connecting.
C25_Witness ==
    /\ state = "connecting"
    /\ lastOp = "reconnectFire"
    /\ notified = <<"connecting">>
    /\ promise[1] = "resolved"
    /\ nCalls = 2

\* C26: at every step that enters Connected the connect-timeout timer of the
\* attempt that is confirmed (the one whose handle is this.port) is cancelled,
\* the attempt counter is 0, exactly one heartbeat timer is armed, and the
\* queue is flushed in FIFO order: when no write raises, the transport log
\* grows by the queue and the queue is empty.
C26_ConnectedEntry ==
    [][ (state # "connected" /\ state' = "connected") =>
          /\ port' \notin timeoutT'
          /\ reconnectAttempts' = 0
          /\ pingIntervalId' /\ pingTimers' = 1
          /\ writeErrors' = writeErrors =>
               (written' = written \o messageQueue /\ messageQueue' = <<>>) ]_vars

\* C27: a disconnect notification for the current handle, received while the
\* bridge is Connecting, moves it to Disconnected and schedules no
\* reconnection: no Reconnecting state, no attempt counted, no backoff timer.
C27_NoReconnectWhileConnecting ==
    [][ (/\ lastOp' = "portDisconnect"
         /\ state = "connecting"
         /\ port # 0 /\ port \notin portOpen')
          => /\ state' = "disconnected"
             /\ notified' = <<"disconnected">>
             /\ UNCHANGED <<reconnectAttempts, reconnectTimeoutId, rTimers>> ]_vars

\* the steps of handleDisconnect that change the state or schedule a reconnection
ChangesOrSchedules ==
    {"setState disconnected", "setState reconnecting", "reconnectAttempts++",
     "setTimeout"}

\* C28: a disconnect notification received while Connected stops the heartbeat
\* timer, gives the error handlers exactly one CONNECTION_FAILED error, before
\* any state change and before the reconnection is scheduled, then moves to
\* Disconnected and starts a reconnection attempt; a notification received
\* while Connecting or Reconnecting emits no connection-lost error.
C28_LostWhileConnected ==
    [][ lastOp' = "portDisconnect" =>
          /\ state = "connected" =>
               /\ ~pingIntervalId' /\ pingTimers' = 0
               /\ emitted' = <<ConnectionFailed("lost")>>
               /\ \E i \in DOMAIN hdSteps' :
                    /\ hdSteps'[i] = "emitError lost"
                    /\ \E k \in 1..(i - 1) : hdSteps'[k] = "stopPingInterval"
                    /\ \A j \in DOMAIN hdSteps' :
                         /\ hdSteps'[j] \in ChangesOrSchedules => i < j
                         /\ hdSteps'[j] \in {"emitError lost", "emitError max"} => j = i
               /\ notified' = <<"disconnected", "reconnecting">>
               /\ state' = "reconnecting"
               /\ reconnectAttempts' = reconnectAttempts + 1
               /\ \E r \in rTimers' \ rTimers : r.id = reconnectTimeoutId'
          /\ state \in {"connecting", "reconnecting"} =>
               /\ \A i \in DOMAIN emitted' : emitted'[i] # ConnectionFailed("lost")
               /\ \A i \in DOMAIN hdSteps' : hdSteps'[i] # "emitError lost" ]_vars

\* C28 witness: the connection was lost while Connected; one error was emitted
\* and a reconnection is scheduled.
C28_Witness ==
    /\ lastOp = "portDisconnect"
    /\ emitted = <<ConnectionFailed("lost")>>
    /\ state = "reconnecting"
    /\ pingTimers = 0
    /\ rTimers # {}
    /\ promise[1] = "resolved"

\* C29: a connect() call that opens a transport handle writes its PING to that
\* handle during the call, while Connecting, and does not put it on the queue.
C29_ProbeWrittenAtConnect ==
    [][ (nCalls' = nCalls + 1 /\ port' = nCalls' /\ state' = "connecting")
          => /\ written' = Append(written, PING)
             /\ messageQueue' = messageQueue ]_vars

\* C30: a heartbeat timer is armed exactly when the bridge is Connected, there
\* is never more than one, this.pingIntervalId is set exactly when it is armed,
\* and a heartbeat firing happens only while the bridge is Connected.
C30_HeartbeatIffConnected ==
    /\ pingTimers \in {0, 1}
    /\ pingTimers = 1 <=> state = "connected"
    /\ pingIntervalId <=> pingTimers = 1
    /\ lastOp = "ping" => state = "connected"

\* C30 witness: the heartbeat fired on a bridge that is Connected for the
\* second time, after the first connection and its heartbeat were ended.
C30_Witness ==
    /\ lastOp = "ping"
    /\ state = "connected"
    /\ pingTimers = 1
    /\ port = 2
    /\ promise[1] = "resolved"
    /\ promise[2] = "resolved"

\* the first n entries of a sequence
FirstN(seq, n) == [i \in 1..Min(n, Len(seq)) |-> seq[i]]

\* C31: the record converted from a childList event lists at most 10 added
\* paths and at most 10 removed paths, and each list is the paths of the first
\* 10 element nodes of the event's list, in their original order.
C31_PathsTruncated ==
    (record # NoRecord /\ mType = "childList") =>
      /\ Len(record.addedNodes) <= 10
      /\ Len(record.removedNodes) <= 10
      /\ record.addedNodes =
           [i \in 1..Len(record.addedNodes) |->
              GetElementPath(FirstN(SelectSeq(addedNodes, IsElement), 10)[i])]
      /\ Len(record.addedNodes) = Min(10, Len(SelectSeq(addedNodes, IsElement)))
      /\ record.removedNodes =
           [i \in 1..Len(record.removedNodes) |->
              GetElementPath(FirstN(SelectSeq(removedNodes, IsElement), 10)[i])]
      /\ Len(record.removedNodes) = Min(10, Len(SelectSeq(removedNodes, IsElement)))

\* C31 witness: an event that added more than 10 elements and a text node
\* among them was converted, and the record lists 10 paths.
C31_Witness ==
    /\ record # NoRecord /\ mType = "childList"
    /\ Len(SelectSeq(addedNodes, IsElement)) > 10
    /\ addedNodes[2] = TextNode
    /\ Len(record.addedNodes) = 10
    /\ record.addedNodes[2] = GetElementPath(ElementNode(2))

\* C32: the reconnect attempt counter is always between 0 and
\* config.reconnectAttempts; it grows only by 1, in handleDisconnect's
\* attemptReconnect while it is below the maximum, and it is set back to 0
\* only by a step that enters Connected.
C32_AttemptCounterBounded ==
    /\ [](reconnectAttempts \in 0..CfgReconnectAttempts)
    /\ [][ /\ reconnectAttempts' > reconnectAttempts =>
                /\ lastOp' = "portDisconnect"
                /\ reconnectAttempts < CfgReconnectAttempts
                /\ reconnectAttempts' = reconnectAttempts + 1
           /\ reconnectAttempts' < reconnectAttempts =>
                /\ reconnectAttempts' = 0
                /\ state # "connected" /\ state' = "connected" ]_vars

\* C32 witness: attemptReconnect has just counted the last allowed attempt.
C32_Witness ==
    /\ lastOp = "portDisconnect"
    /\ state = "reconnecting"
    /\ reconnectAttempts = CfgReconnectAttempts
    /\ hdSteps # <<>>

\* C33: whenever the bridge is Connected it holds a transport handle, and that
\* handle is open; a sendMessage made while Connected therefore attempts a
\* write: the message is written, or the write raised and it was put back on
\* the queue.
C33_ConnectedHasPort ==
    /\ state = "connected" => (port # 0 /\ port \in portOpen)
    /\ (state = "connected" /\ lastOp = "send") =>
         \/ /\ reply = [sent |-> TRUE, queued |-> FALSE]
            /\ written # <<>> /\ written[Len(written)] = nSent
         \/ /\ reply = [sent |-> FALSE, queued |-> TRUE]
            /\ writeErrors > 0
            /\ messageQueue # <<>> /\ messageQueue[Len(messageQueue)] = nSent

\* C33 witness: a message was sent while Connected on the handle opened by the
\* second connect() call, and it was written.
C33_Witness ==
    /\ state = "connected"
    /\ port = 2
    /\ lastOp = "send"
    /\ reply.sent
    /\ written[Len(written)] = nSent

\* C34: flushMessageQueue terminates for every queue content, also when
\* transport writes raise an error while the state remains Connected.
C34_FlushTerminates == <>(flushPc = "done")

C37_HandlerThrowReported ==
    [][ (/\ messageHandlers' = messageHandlers
         /\ WellFormed(lastRaw') /\ lastRaw' # "PONG"
         /\ throwers' \cap Range(messageHandlers) # {})
          => (/\ emitted' = <<InvalidMessage>>
              /\ delivered' # <<>>
              /\ delivered'[Len(delivered')] \in throwers'
              /\ \A i \in 1..(Len(delivered') - 1) : delivered'[i] \notin throwers'
              /\ \A i \in DOMAIN delivered' :
                   i <= Len(messageHandlers) /\ delivered'[i] = messageHandlers[i]
              /\ UNCHANGED <<state, port, portOpen, messageQueue, pingIntervalId,
                             pingTimers, reconnectAttempts, confirmT, timeoutT,
                             rTimers, written>>) ]_vars

\* C37 witness: the first of two registered handlers threw on a well-formed
\* message; the error was reported and the second handler was not called.
C37_Witness ==
    /\ lastOp = "message"
    /\ lastRaw = "COMMAND"
    /\ Len(messageHandlers) = 2
    /\ messageHandlers[1] \in throwers
    /\ emitted = <<InvalidMessage>>
    /\ messageHandlers[2] \notin Range(delivered)
    /\ state = "connected"

\* C38: every DOM_CHANGED message carries at least 1 and at most 100 records,
\* and a debounce timer that fires while the pending list is empty sends no
\* message at all.
C38_NoEmptyBatch ==
    /\ [](\A i \in DOMAIN sent :
            sent[i].type = "DOM_CHANGED" =>
              (Len(sent[i].changes) >= 1 /\ Len(sent[i].changes) <= 100))
    /\ [][ (timeoutId # 0 /\ timeoutId' = 0 /\ pendingMutations = <<>>)
             => sent' = <<>> ]_vars

\* C38 witness: records were accumulated and discarded by stop(), and the
\* debounce timer armed for them has fired without sending anything.
C38_Witness ==
    /\ nRecords > 0
    /\ emittedIds = {}
    /\ timeoutId = 0
    /\ sent = <<>>
    /\ pendingMutations = <<>>
    /\ ~isObserving

\* C39: stop() ends observation and discards the pending records without
\* touching the debounce timer; while no observer is attached nothing is
\* accumulated; every pending record, and so every record of a DOM_CHANGED
\* message, was accumulated after the last stop(), also when start() was
\* called again before the timer fired.
C39_StopDiscardsPending ==
    /\ [](\A i \in DOMAIN pendingMutations : pendingMutations[i].id > burstStart)
    /\ [][ /\ (isObserving /\ ~isObserving') =>
                /\ pendingMutations' = <<>>
                /\ ~observer'
                /\ burstStart' = nRecords
                /\ timeoutId' = timeoutId
                /\ sent' = <<>>
           /\ ~observer => nRecords' = nRecords
           /\ \A id \in IdsOf(DomChangedOf(sent')) : id > burstStart
           /\ (timeoutId # 0 /\ timeoutId' = 0 /\ burstStart = nRecords)
                => sent' = <<>> ]_vars

\* C39 witness: stop() discarded pending records, the service is observing
\* again, and the timer armed before stop() has fired at its deadline and sent
\* nothing.
C39_Witness ==
    /\ isObserving
    /\ nRecords > 0
    /\ burstStart = nRecords
    /\ emittedIds = {}
    /\ timeoutId = 0
    /\ now = lastEventAt + DefaultDebounceDelay
    /\ sent = <<>>

\* C40: start() called while observing sends no PAGE_SCRAPED message and
\* attaches no second observer: at most one observer is attached, exactly when
\* the service is observing, so a change event is accumulated at most once;
\* start() called while not observing (initially or after stop()) sends
\* exactly one PAGE_SCRAPED message and attaches one observer.
C40_StartIdempotent ==
    /\ [](/\ attached \in {0, 1}
          /\ attached = 1 <=> isObserving
          /\ observer <=> isObserving)
    /\ [][ /\ isObserving => (sent' # <<PageScraped>> /\ attached' <= attached)
           /\ (~isObserving /\ isObserving') =>
                (sent' = <<PageScraped>> /\ attached' = 1)
           /\ lastBatch' # <<>> => nRecords' - nRecords <= Len(lastBatch') ]_vars

\* C40 witness: the service was started, stopped and started again: the second
\* start() has just sent one PAGE_SCRAPED message and one observer is attached.
C40_Witness ==
    /\ isObserving
    /\ attached = 1
    /\ sent = <<PageScraped>>
    /\ nRecords > 0
    /\ pendingMutations = <<>>
    /\ emittedIds = {}

====
